---------------------------- MODULE Spec2Model ----------------------------
(***************************************************************************)
(* A model of the squad / awareness core of the Chrono Divide bot:         *)
(*   - Squad (src/src/bot/logic/squad/squad.ts, lines 20-163): membership, *)
(*     liveness and the cached centre of mass / spread;                    *)
(*   - MatchAwarenessImpl (same file, lines 211-384): the hostile index,   *)
(*     the threat cache, the attack flag and the rally point;              *)
(*   - CombatSquad (src/unnamed/part_001): the gather / attack behaviour;  *)
(*   - LoadOntoTransportHandler (squad.ts, lines 476-532);                 *)
(*   - the micro policy (src/unnamed/part_000) and the action coalescer    *)
(*     the behaviours push to.                                             *)
(*                                                                         *)
(* Representation.  A nullable value is a sequence of length 0 (null) or 1 *)
(* (the value).  A distance is held by its SQUARE, an integer: the code's  *)
(* sqrt is monotone, so a maximum or a comparison of distances is the      *)
(* maximum or the comparison of their squares.                             *)
(***************************************************************************)
EXTENDS Integers, Sequences, FiniteSets, TLC

VARIABLES
    \* ---- the game world as the Squad sees it (gameApi.getUnitData)
    unitData,                   \* [UnitIds -> nullable UnitData]
    \* ---- Squad (squad.ts:48-163)
    unitIds,                    \* Squad.unitIds: number[]
    liveness,                   \* Squad.liveness
    killable,                   \* Squad.killable (constructor parameter)
    centerOfMass,               \* Squad.centerOfMass: Point2D | null
    maxDistanceToCenterOfMass,  \* Squad.maxDistanceToCenterOfMass (squared) | null
    mission,                    \* Squad.mission: Mission | null
    activeMissions,             \* the missions whose isActive() answers true
    squadOutcome,               \* what the last operation was / returned
    removeSquadCalls,           \* the missions whose removeSquad() the last operation called
    staleUnitIds,               \* the ids the last onAiUpdate dropped from Squad.unitIds
    \* ---- the game as MatchAwarenessImpl sees it
    tick,                       \* game.getCurrentTick()
    tickRate,                   \* game.getTickRate()
    players,                    \* game.getPlayers() with each one's PlayerData
    \* ---- MatchAwarenessImpl (squad.ts:227-384)
    hostileQuadTree,            \* MatchAwarenessImpl.hostileQuadTree (its entries)
    threatCache,                \* MatchAwarenessImpl.threatCache: GlobalThreat | null
    shouldAttack,               \* MatchAwarenessImpl._shouldAttack
    mainRallyPoint,             \* MatchAwarenessImpl.mainRallyPoint
    awOutcome,                  \* what the last awareness operation was and did
    lastQuery,                  \* the last getHostilesNearPoint call and its result
    \* ---- CombatSquad (part_001:28-137)
    state,                      \* CombatSquad.state: "Gathering" | "Attacking"
    lastCommand,                \* CombatSquad.lastCommand: number | null
    lastGrab,                   \* CombatSquad.lastGrab: number | null
    targetArea,                 \* CombatSquad.targetArea
    actionBatcher,              \* the intents the last onAiUpdate pushed
    combatOutcome,              \* what the last CombatSquad.onAiUpdate did and returned
    \* ---- LoadOntoTransportHandler (squad.ts:478-532)
    transporters,               \* LoadOntoTransportHandler.transporters: number[] | null
    transporteesToTransport,    \* its Map: the <<key, value>> entries in insertion order
    abortAt,                    \* LoadOntoTransportHandler.abortAt: number | null
    handlerOutcome,             \* the last handler call and what it returned
    \* ---- the micro policy (part_000) and the action coalescer
    microAttacker,              \* the attacker handed to the micro policy
    microTarget,                \* the target unit handed to manageAttackMicro
    pending,                    \* the coalescer's pending actions of this tick
    pushed,                     \* every intent pushed to the coalescer this tick
    orders                      \* the actionsApi.orderUnits calls of the last operation

squadVars == <<unitData, unitIds, liveness, killable, centerOfMass,
               maxDistanceToCenterOfMass, mission, activeMissions, squadOutcome,
               removeSquadCalls, staleUnitIds>>

awVars == <<tick, tickRate, players, hostileQuadTree, threatCache, shouldAttack,
            mainRallyPoint, awOutcome, lastQuery>>

combatState == <<state, lastCommand, lastGrab, targetArea, actionBatcher>>

combatVars == <<combatState, combatOutcome>>

handlerVars == <<transporters, transporteesToTransport, abortAt, handlerOutcome>>

microVars == <<microAttacker, microTarget>>

batcherVars == <<pending, pushed>>

orderVars == <<handlerVars, microVars, batcherVars, orders>>

vars == <<squadVars, awVars, combatVars, orderVars>>

-----------------------------------------------------------------------------
(* Nullable values *)

Null == << >>

Some(v) == <<v>>

IsNull(o) == Len(o) = 0

Val(o) == o[1]

\* No CombatSquad.onAiUpdate was the last step.
NoCombatOutcome ==
    [op |-> "none", evaluated |-> FALSE, stateBefore |-> "Gathering", raised |-> FALSE,
     returned |-> [type |-> "none", x |-> 0, y |-> 0, radius |-> 0]]

-----------------------------------------------------------------------------
(* Bounds of the model *)

\* Longest membership list the model lets addUnit build.
MaxSquadSize == 3

\* The unit ids of the world.
UnitIds == {1, 2, 3}

-----------------------------------------------------------------------------
(* The world: UnitData as far as the squad code reads it.                  *)
(* Unit 1 is an infantry unit, unit 2 an aircraft (movement zone Fly) and  *)
(* unit 3 a ground vehicle; a larger id repeats the pattern.               *)

isGroundUnit(id) == id % 3 # 2

Tile(x, y) == [rx |-> x, ry |-> y]

\* What getUnitData(id) can answer while the unit exists, in the squad model:
\* the infantry walks between two tiles or rides a transport (no tile), the
\* aircraft hovers over one tile, the vehicle stands on one tile and can be
\* immobilised there.
SquadUnitData(id) ==
    CASE id % 3 = 1 -> { [canMove |-> TRUE, tile |-> Some(Tile(0, 0))],
                         [canMove |-> TRUE, tile |-> Some(Tile(1, 0))],
                         [canMove |-> TRUE, tile |-> Null] }
      [] id % 3 = 2 -> { [canMove |-> TRUE, tile |-> Some(Tile(4, 2))] }
      [] OTHER      -> { [canMove |-> TRUE, tile |-> Some(Tile(1, 0))],
                         [canMove |-> FALSE, tile |-> Some(Tile(1, 0))] }

\* The missions a squad can be bound to.
Missions == {"m1"}

\* gameApi.getUnitData(unitId): the unit, or null when the id does not resolve.
getUnitData(game, unitId) == game[unitId]

-----------------------------------------------------------------------------
(* squad.ts:20-46 calculateCenterOfMass, and the helper it calls *)

\* getDistanceBetweenPoints (map.js), squared.
getDistanceBetweenPointsSq(a, b) ==
    (a.x - b.x) * (a.x - b.x) + (a.y - b.y) * (a.y - b.y)

RECURSIVE SumRx(_)
SumRx(unitTiles) ==
    IF unitTiles = << >> THEN 0 ELSE Head(unitTiles).rx + SumRx(Tail(unitTiles))

RECURSIVE SumRy(_)
SumRy(unitTiles) ==
    IF unitTiles = << >> THEN 0 ELSE Head(unitTiles).ry + SumRy(Tail(unitTiles))

\* Math.round of the quotient s / n for s >= 0, n > 0: halves round up.
MathRoundDiv(s, n) == (2 * s + n) \div (2 * n)

\* _.max of a non-empty list of numbers.
RECURSIVE MaxOf(_)
MaxOf(xs) ==
    IF Len(xs) = 1 THEN xs[1]
    ELSE LET m == MaxOf(Tail(xs)) IN IF xs[1] > m THEN xs[1] ELSE m

\* calculateCenterOfMass with Math.floor in place of Math.round.
calculateCenterOfMassFloor(unitTiles) ==
    IF Len(unitTiles) = 0 THEN Null
    ELSE LET center == [x |-> SumRx(unitTiles) \div Len(unitTiles),
                        y |-> SumRy(unitTiles) \div Len(unitTiles)]
             distances == [i \in 1..Len(unitTiles) |->
                              getDistanceBetweenPointsSq(
                                  [x |-> unitTiles[i].rx, y |-> unitTiles[i].ry], center)]
         IN Some([centerOfMass |-> center, maxDistance |-> MaxOf(distances)])

calculateCenterOfMass(unitTiles) ==
    IF Len(unitTiles) = 0 THEN Null
    ELSE LET center == [x |-> MathRoundDiv(SumRx(unitTiles), Len(unitTiles)),
                        y |-> MathRoundDiv(SumRy(unitTiles), Len(unitTiles))]
             distances == [i \in 1..Len(unitTiles) |->
                              getDistanceBetweenPointsSq(
                                  [x |-> unitTiles[i].rx, y |-> unitTiles[i].ry], center)]
         IN Some([centerOfMass |-> center, maxDistance |-> MaxOf(distances)])

-----------------------------------------------------------------------------
(* squad.ts:150-158 Squad.updateLiveness *)

\* The membership left as it was.
prunedUnitIdsKeptAll(game, ids) == ids

\* line 151: the ids the filter drops, in order.
staleUnitIdsOf(game, ids) ==
    SelectSeq(ids, LAMBDA unitId : IsNull(getUnitData(game, unitId)))

\* line 151: the ids that still resolve, in order.
prunedUnitIds(game, ids) ==
    SelectSeq(ids, LAMBDA unitId : ~IsNull(getUnitData(game, unitId)))

\* updateLiveness recomputing the liveness from the membership at every update.
updatedLivenessRecomputed(kill, ids, live) ==
    IF kill /\ Len(ids) = 0 THEN "SquadDead" ELSE "SquadActive"

\* updateLiveness without the test of this.killable.
updatedLivenessAlwaysKillable(kill, ids, live) ==
    IF Len(ids) = 0
    THEN (IF live = "SquadActive" THEN "SquadDead" ELSE live)
    ELSE live

\* lines 153-157: the liveness after the update.
updatedLiveness(kill, ids, live) ==
    IF kill /\ Len(ids) = 0
    THEN (IF live = "SquadActive" THEN "SquadDead" ELSE live)
    ELSE live

-----------------------------------------------------------------------------
(* squad.ts:81-85: the tiles fed to calculateCenterOfMass *)

RECURSIVE MapTiles(_, _)
MapTiles(game, ids) ==
    IF ids = << >> THEN << >>
    ELSE << Val(Val(getUnitData(game, Head(ids))).tile) >> \o MapTiles(game, Tail(ids))

movableUnitTiles(game, ids) ==
    MapTiles(game,
        SelectSeq(ids, LAMBDA unitId :
            /\ ~IsNull(getUnitData(game, unitId))
            /\ Val(getUnitData(game, unitId)).canMove
            /\ ~IsNull(Val(getUnitData(game, unitId)).tile)))


-----------------------------------------------------------------------------
(* The Squad as a state machine *)

SquadInit ==
    /\ unitData \in [UnitIds -> { Some([canMove |-> TRUE, tile |-> Some(Tile(0, 0))]),
                                   Some([canMove |-> TRUE, tile |-> Some(Tile(1, 0))]),
                                   Some([canMove |-> TRUE, tile |-> Some(Tile(4, 2))]) }]
    /\ \A id \in UnitIds : Val(unitData[id]) \in SquadUnitData(id)
    /\ unitIds = << >>
    /\ liveness = "SquadActive"
    /\ killable \in BOOLEAN
    /\ centerOfMass = Null
    /\ maxDistanceToCenterOfMass = Null
    /\ mission \in {Null} \cup {Some(m) : m \in Missions}
    /\ activeMissions = Missions
    /\ squadOutcome = "none"
    /\ removeSquadCalls = << >>
    /\ staleUnitIds = << >>

\* squad.ts:146-148 Squad.addUnit
AddUnit(unitIdToAdd) ==
    /\ Len(unitIds) < MaxSquadSize
    /\ unitIds' = Append(unitIds, unitIdToAdd)
    /\ squadOutcome' = "none"
    /\ removeSquadCalls' = << >>
    /\ staleUnitIds' = << >>
    /\ UNCHANGED <<unitData, liveness, killable, centerOfMass,
                   maxDistanceToCenterOfMass, mission, activeMissions, awVars, combatVars,
                   orderVars>>

\* squad.ts:142-144 Squad.removeUnit
RemoveUnit(unitIdToRemove) ==
    /\ unitIds' = SelectSeq(unitIds, LAMBDA unitId : unitId # unitIdToRemove)
    /\ squadOutcome' = "none"
    /\ removeSquadCalls' = << >>
    /\ staleUnitIds' = << >>
    /\ UNCHANGED <<unitData, liveness, killable, centerOfMass,
                   maxDistanceToCenterOfMass, mission, activeMissions, awVars, combatVars,
                   orderVars>>

\* squad.ts:110-115 Squad.setMission: the old mission, when there is one and
\* it is not the new one, is told removeSquad().
SetMission(newMission) ==
    /\ mission' = newMission
    /\ squadOutcome' = "none"
    /\ removeSquadCalls' = IF ~IsNull(mission) /\ mission # newMission
                           THEN << Val(mission) >> ELSE << >>
    /\ staleUnitIds' = << >>
    /\ UNCHANGED <<unitData, unitIds, liveness, killable, centerOfMass,
                   maxDistanceToCenterOfMass, activeMissions, awVars, combatVars,
                   orderVars>>

\* squad.ts:95-104: what onAiUpdate returns, and the mission it keeps.  The
\* behaviour is the SquadBehaviour interface: "behaviour" stands for whatever
\* its onAiUpdate returns.
\* The update that would keep the mission reference.
missionKeptAfterUpdate(m, active) == m

missionAfterUpdate(m, active) ==
    IF ~IsNull(m) /\ Val(m) \notin active THEN Null ELSE m

outcomeOfUpdate(m, active) ==
    IF ~IsNull(m) /\ Val(m) \notin active THEN "disband"
    ELSE IF IsNull(m) THEN "disband"
    ELSE "behaviour"

\* squad.ts:97: this.mission.removeSquad(), in the orphaned branch only.
removeSquadCallsOfUpdate(m, active) ==
    IF ~IsNull(m) /\ Val(m) \notin active THEN << Val(m) >> ELSE << >>

\* squad.ts:80-102: Squad.onAiUpdate up to the call of the behaviour.
SquadUpdate ==
    LET ids == prunedUnitIds(unitData, unitIds)
        tileMetrics == calculateCenterOfMass(movableUnitTiles(unitData, ids))
    IN /\ unitIds' = ids
       /\ liveness' = updatedLiveness(killable, ids, liveness)
       /\ centerOfMass' =
             IF ~IsNull(tileMetrics) THEN Some(Val(tileMetrics).centerOfMass) ELSE Null
       /\ maxDistanceToCenterOfMass' =
             IF ~IsNull(tileMetrics) THEN Some(Val(tileMetrics).maxDistance) ELSE Null
       /\ mission' = missionAfterUpdate(mission, activeMissions)
       /\ squadOutcome' = outcomeOfUpdate(mission, activeMissions)
       /\ removeSquadCalls' = removeSquadCallsOfUpdate(mission, activeMissions)
       /\ staleUnitIds' = staleUnitIdsOf(unitData, unitIds)
       /\ UNCHANGED <<unitData, killable, activeMissions>>

\* squad.ts:74-105 Squad.onAiUpdate, the behaviour being any SquadBehaviour.
SquadOnAiUpdate == SquadUpdate /\ UNCHANGED <<awVars, combatVars, orderVars>>

\* The world engine: a unit moves, boards a transport, is immobilised or is
\* destroyed (d = Null).  A destroyed unit's id never resolves again.
WorldChanges(id, d) ==
    /\ ~IsNull(unitData[id])
    /\ unitData[id] # d
    /\ unitData' = [unitData EXCEPT ![id] = d]
    /\ squadOutcome' = "none"
    /\ combatOutcome' = NoCombatOutcome
    /\ removeSquadCalls' = << >>
    /\ staleUnitIds' = << >>
    /\ UNCHANGED <<unitIds, liveness, killable, centerOfMass,
                   maxDistanceToCenterOfMass, mission, activeMissions, awVars, combatState,
                   orderVars>>

\* A mission is terminated by its factory: isActive() answers false from now on.
MissionEnds(m) ==
    /\ m \in activeMissions
    /\ activeMissions' = activeMissions \ {m}
    /\ squadOutcome' = "none"
    /\ removeSquadCalls' = << >>
    /\ staleUnitIds' = << >>
    /\ UNCHANGED <<unitData, unitIds, liveness, killable, centerOfMass,
                   maxDistanceToCenterOfMass, mission, awVars, combatVars, orderVars>>

SquadNext ==
    \/ \E id \in UnitIds : AddUnit(id)
    \/ \E id \in UnitIds : RemoveUnit(id)
    \/ \E m \in {Null} \cup {Some(x) : x \in Missions} : SetMission(m)
    \/ SquadOnAiUpdate
    \/ \E id \in UnitIds : \E d \in {Null} \cup {Some(x) : x \in SquadUnitData(id)} :
          WorldChanges(id, d)
    \/ \E m \in Missions : MissionEnds(m)

\* A squad on which no operation is called.
SquadIdle ==
    /\ unitData = [id \in UnitIds |-> Null]
    /\ unitIds = << >>
    /\ liveness = "SquadActive"
    /\ killable = FALSE
    /\ centerOfMass = Null
    /\ maxDistanceToCenterOfMass = Null
    /\ mission = Null
    /\ activeMissions = Missions
    /\ squadOutcome = "none"
    /\ removeSquadCalls = << >>
    /\ staleUnitIds = << >>

-----------------------------------------------------------------------------
(* MatchAwarenessImpl: constants and the game it reads *)

RALLY_POINT_UPDATE_INTERVAL_TICKS == 60

THREAT_UPDATE_INTERVAL_TICKS == 30

\* The tick rate checkShouldAttack's caller assumes (squad.ts:349), and the
\* seconds of its two-hour horizon.
ASSUMED_TICK_RATE == 15

GAME_LENGTH_SECONDS == 7200

\* Longest list of visible hostile units the index model draws.
MaxHostiles == 2

Self == "self"

Player(n, combatant, ally) == [name |-> n, isCombatant |-> combatant, allied |-> ally]

\* game.getPlayers() in order, each with isCombatant and whether
\* game.areAlliedPlayers(self, name): one enemy; one ally and no enemy; an ally
\* before the enemy; an observer (no combatant, not allied) before the enemy.
PlayerConfigs ==
    { << Player(Self, TRUE, TRUE), Player("enemy", TRUE, FALSE) >>,
      << Player(Self, TRUE, TRUE), Player("ally", TRUE, TRUE) >>,
      << Player(Self, TRUE, TRUE), Player("ally", TRUE, TRUE), Player("enemy", TRUE, FALSE) >>,
      << Player(Self, TRUE, TRUE), Player("observer", FALSE, FALSE), Player("enemy", TRUE, FALSE) >> }

\* The ticks at which the model looks at the game.
TickValues == {0, 15, 30, 45, 60, 54000, 120000}

TickRates == {15, 30}

\* sectorCache.getOverallVisibility(), in thousandths.
VisibilityValues == {0, 500}

\* calculateGlobalThreat's result, as far as this code reads it.
GlobalThreat(antiGround, land, defensive, airPower, antiAir, air) ==
    [totalAvailableAntiGroundFirepower |-> antiGround,
     totalOffensiveLandThreat |-> land,
     totalDefensiveThreat |-> defensive,
     totalAvailableAirPower |-> airPower,
     totalOffensiveAntiAirThreat |-> antiAir,
     totalOffensiveAirThreat |-> air]

ThreatSnapshots ==
    { GlobalThreat(0, 0, 0, 0, 0, 0),
      GlobalThreat(100, 50, 0, 0, 0, 0),
      GlobalThreat(100, 100, 0, 0, 0, 0),
      GlobalThreat(100, 150, 0, 0, 0, 0),
      GlobalThreat(50, 100, 50, 10, 50, 0),
      GlobalThreat(0, 0, 0, 100, 50, 200) }

\* A visible unit as getUnitData answers it: id, owner and tile (null while
\* the unit has none).
Hostile(i, o, t) == [id |-> i, owner |-> o, tile |-> t]

VisibleUnitData ==
    { Null,
      Some(Hostile(1, "enemy", Some(Tile(0, 0)))),
      Some(Hostile(1, "enemy", Some(Tile(3, 4)))),
      Some(Hostile(2, "enemy", Some(Tile(6, 8)))),
      Some(Hostile(2, "enemy", Null)),
      Some(Hostile(3, "neutral", Some(Tile(1, 1)))) }

RECURSIVE ListsUpTo(_, _)
ListsUpTo(S, n) ==
    IF n = 0 THEN { << >> }
    ELSE LET shorter == ListsUpTo(S, n - 1)
         IN shorter \cup { Append(l, x) : l \in {k \in shorter : Len(k) = n - 1}, x \in S }

\* game.getVisibleUnits(...).map(getUnitData): lists without a repeated id.
VisibleUnitLists ==
    { l \in ListsUpTo(VisibleUnitData, MaxHostiles) :
        \A i, j \in 1..Len(l) :
            (i # j /\ ~IsNull(l[i]) /\ ~IsNull(l[j])) => Val(l[i]).id # Val(l[j]).id }

QueryPoints == { [x |-> 0, y |-> 0], [x |-> 3, y |-> 4] }

QueryRadii == {0, 5, 9}

-----------------------------------------------------------------------------
(* squad.ts:220-225 rebuildQuadtree, 242-252 getHostilesNearPoint *)

\* new Circle({x, y, r: 1, data: unit.id}) as stored in the tree.
QTUnit(unit) == [x |-> Val(unit.tile).rx, y |-> Val(unit.tile).ry, data |-> unit.id]

\* units.forEach(insert): reading unit.tile.rx of a unit without a tile throws,
\* and the units inserted before it stay in the tree.
RECURSIVE insertEach(_, _)
insertEach(tree, units) ==
    IF units = << >> THEN [tree |-> tree, threw |-> FALSE]
    ELSE IF IsNull(Head(units).tile) THEN [tree |-> tree, threw |-> TRUE]
    ELSE insertEach(tree \cup {QTUnit(Head(units))}, Tail(units))

\* quadtree.clear(), then the inserts.
rebuildQuadtree(quadtree, units) == insertEach({}, units)

\* Quadtree.retrieve of @timohausmann/quadtree-ts: the objects of every node the
\* circle's bounds touch.  A node splits only beyond 10 objects, so a tree of
\* at most MaxHostiles entries is one node and every entry is a candidate.
retrieve(quadtree, circle) == quadtree

\* getHostilesNearPoint without the distance filter.
getHostilesNearPointUnfiltered(quadtree, searchX, searchY, radius) ==
    { [x |-> e.x, y |-> e.y, unitId |-> e.data] :
        e \in { c \in retrieve(quadtree, [x |-> searchX, y |-> searchY, r |-> radius]) :
                  c.data # 0 } }

getHostilesNearPoint(quadtree, searchX, searchY, radius) ==
    { [x |-> e.x, y |-> e.y, unitId |-> e.data] :
        e \in { c \in retrieve(quadtree, [x |-> searchX, y |-> searchY, r |-> radius]) :
                  /\ getDistanceBetweenPointsSq([x |-> c.x, y |-> c.y],
                         [x |-> searchX, y |-> searchY]) <= radius * radius
                  /\ c.data # 0 } }

-----------------------------------------------------------------------------
(* squad.ts:268-278 checkShouldAttack and the arithmetic of its caller.      *)
(* A real number is held as a fraction <<numerator, denominator>>.           *)

RECURSIVE Gcd(_, _)
Gcd(a, b) == IF b = 0 THEN a ELSE Gcd(b, a % b)

\* Math.pow(x, 1.025), as the integer part of a hundred times it.
Pow1025Centi(x) ==
    CASE x = 0 -> 0
      [] x = 1 -> 100
      [] x = 2 -> 203
      [] x = 10 -> 1059
      [] x = 25 -> 2709
      [] x = 50 -> 5513
      [] x = 100 -> 11220
      [] x = 150 -> 17001
      [] x = 200 -> 22832

\* Math.pow(x, 1.025) > f[1] / f[2].  The power is irrational for x >= 2, so
\* it exceeds a fraction equal to its integer part of hundredths; no fraction
\* the model forms lies strictly between two consecutive hundredths around it.
PowExceeds(x, f) ==
    LET whole == f[1] \div f[2]
        rest  == f[1] % f[2]
        centi == 100 * whole + (100 * rest) \div f[2]
        exact == (100 * rest) % f[2] = 0
    IN \/ Pow1025Centi(x) > centi
       \/ Pow1025Centi(x) = centi /\ exact /\ x >= 2

\* (threatFactor * offensive + defensive) * 1.1
scaledThreat(threatFactor, offensive, defensive) ==
    << 11 * (threatFactor[1] * offensive + threatFactor[2] * defensive),
       10 * threatFactor[2] >>

\* checkShouldAttack with the enemy's offensive air threat in the air term.
checkShouldAttackAirThreat(threat, threatFactor) ==
    \/ PowExceeds(threat.totalAvailableAntiGroundFirepower,
           scaledThreat(threatFactor, threat.totalOffensiveLandThreat, threat.totalDefensiveThreat))
    \/ PowExceeds(threat.totalAvailableAirPower,
           scaledThreat(threatFactor, threat.totalOffensiveAirThreat, threat.totalDefensiveThreat))

checkShouldAttack(threat, threatFactor) ==
    \/ PowExceeds(threat.totalAvailableAntiGroundFirepower,
           scaledThreat(threatFactor, threat.totalOffensiveLandThreat, threat.totalDefensiveThreat))
    \/ PowExceeds(threat.totalAvailableAirPower,
           scaledThreat(threatFactor, threat.totalOffensiveAntiAirThreat, threat.totalDefensiveThreat))

\* line 349: Math.max(0, 1.0 - tick / (15 * 7200.0)), in lowest terms.
gameLengthFactor(currentTick) ==
    LET horizon == ASSUMED_TICK_RATE * GAME_LENGTH_SECONDS
        left == IF currentTick >= horizon THEN 0 ELSE horizon - currentTick
        g == Gcd(left, horizon)
    IN << left \div g, horizon \div g >>

\* The two factors exchanged: 0.75 while defending, 1.25 while attacking.
threatFactorForExchanged(attacking, factor) ==
    IF ~attacking THEN << 3 * factor[1], 4 * factor[2] >>
    ELSE << 5 * factor[1], 4 * factor[2] >>

\* lines 352-364: 1.25 * gameLengthFactor while defending, 0.75 * while attacking.
threatFactorFor(attacking, factor) ==
    IF ~attacking THEN << 5 * factor[1], 4 * factor[2] >>
    ELSE << 3 * factor[1], 4 * factor[2] >>

\* The threat is recomputed at every tick, whatever the interval.
threatUpdateDueEveryTick(currentTick, visibility) == visibility # 0

\* lines 326-328: the threat (and the attack flag) is recomputed at this update.
threatUpdateDue(currentTick, visibility) ==
    currentTick % THREAT_UPDATE_INTERVAL_TICKS = 0 /\ visibility # 0

-----------------------------------------------------------------------------
(* squad.ts:288-383 MatchAwarenessImpl.onAiUpdate *)

\* lines 298-307
hostilePlayerNames(ps) ==
    { ps[i].name : i \in { j \in 1..Len(ps) :
          ps[j].name # Self /\ ps[j].isCombatant /\ ~ps[j].allied } }

\* lines 316-318: the units that resolve and are owned by a hostile player.
hostileUnits(visibleUnits, names) ==
    LET kept == SelectSeq(visibleUnits, LAMBDA u : ~IsNull(u) /\ Val(u).owner \in names)
    IN [i \in 1..Len(kept) |-> Val(kept[i])]

\* The players other than self, allied or not.
enemyPlayersAndAllies(ps) == SelectSeq(ps, LAMBDA p : p.name # Self)

\* lines 370-372
enemyPlayers(ps) == SelectSeq(ps, LAMBDA p : p.name # Self /\ ~p.allied)

\* getPointTowardsOtherPoint(game, from, to, 10, 10, 0) (map.js): the point at
\* distance 10 from `from` in the direction of `to`, kept as that description.
getPointTowardsOtherPoint(from, to) == [from |-> from, towards |-> to, radius |-> 10]

startLocation(name) == name

NoAwOutcome == [op |-> "none", raised |-> FALSE, rebuildFailed |-> FALSE, visibility |-> 0]

AwInit(configs, rates) ==
    /\ tick = 0
    /\ tickRate \in rates
    /\ players \in configs
    /\ hostileQuadTree = {}
    /\ threatCache = Null
    /\ shouldAttack = FALSE
    /\ mainRallyPoint = [from |-> "constructor", towards |-> "constructor", radius |-> 0]
    /\ awOutcome = NoAwOutcome
    /\ lastQuery = [x |-> 0, y |-> 0, radius |-> 0, result |-> {}]

AwarenessOnAiUpdate(visibleUnits, visibility, globalThreat) ==
    LET rebuilt == rebuildQuadtree(hostileQuadTree,
                       hostileUnits(visibleUnits, hostilePlayerNames(players)))
        due == threatUpdateDue(tick, visibility)
        rallyDue == tick % RALLY_POINT_UPDATE_INTERVAL_TICKS = 0
        enemies == enemyPlayers(players)
        \* line 373-377: enemyPlayers[0] is undefined when there is no enemy, and
        \* reading the start location of no player throws out of onAiUpdate.
        raises == rallyDue /\ Len(enemies) = 0
    IN /\ hostileQuadTree' = rebuilt.tree
       /\ threatCache' = IF due THEN Some(globalThreat) ELSE threatCache
       /\ shouldAttack' =
             IF due
             THEN checkShouldAttack(globalThreat,
                      threatFactorFor(shouldAttack, gameLengthFactor(tick)))
             ELSE shouldAttack
       /\ mainRallyPoint' =
             IF rallyDue /\ ~raises
             THEN getPointTowardsOtherPoint(startLocation(Self), startLocation(enemies[1].name))
             ELSE mainRallyPoint
       /\ awOutcome' = [op |-> "update", raised |-> raises,
                        rebuildFailed |-> rebuilt.threw, visibility |-> visibility]
       /\ UNCHANGED <<tick, tickRate, players, lastQuery, squadVars, combatVars, orderVars>>

\* getHostilesNearPoint2d / getHostilesNearPoint, called by a behaviour.
QueryHostiles(point, radius) ==
    /\ lastQuery' = [x |-> point.x, y |-> point.y, radius |-> radius,
                     result |-> getHostilesNearPoint(hostileQuadTree, point.x, point.y, radius)]
    /\ awOutcome' = [NoAwOutcome EXCEPT !.op = "query"]
    /\ UNCHANGED <<tick, tickRate, players, hostileQuadTree, threatCache, shouldAttack,
                   mainRallyPoint, squadVars, combatVars, orderVars>>

\* The game advances to a later tick.
GameTick(t) ==
    /\ t > tick
    /\ tick' = t
    /\ awOutcome' = NoAwOutcome
    /\ combatOutcome' = NoCombatOutcome
    /\ handlerOutcome' = [op |-> "none", result |-> "none"]
    /\ UNCHANGED <<tickRate, players, hostileQuadTree, threatCache, shouldAttack,
                   mainRallyPoint, lastQuery, squadVars, combatState,
                   transporters, transporteesToTransport, abortAt,
                   microVars, batcherVars, orders>>

-----------------------------------------------------------------------------
(* CombatSquad (part_001): constants, and the world it reads *)

TARGET_UPDATE_INTERVAL_TICKS == 10

GRAB_INTERVAL_TICKS == 10

GRAB_RADIUS == 20

MIN_GATHER_RADIUS == 5

MAX_GATHER_RADIUS == 15

GATHER_RATIO == 10

\* The constructor's rallyArea, and playerData.startLocation.
RallyArea == [x |-> 9, y |-> 9]

StartLocation == [x |-> 1, y |-> 1]

\* The target areas the constructor or setAttackArea can give.
TargetAreas == { Null, Some([x |-> 60, y |-> 0]) }

\* The coordinates at which mapApi.getTile answers undefined: the map is not a
\* rectangle of the tile grid, and a mean of tiles can fall off it.
MissingTiles == { <<21, 0>>, <<35, 0>> }

\* gameApi.mapApi.getTile(x, y) !== undefined
tileExists(x, y) == <<x, y>> \notin MissingTiles

\* UnitData as CombatSquad reads it.  A weapon is held by its maxRange.
CombatUnit(move, t, combatant, primary, secondary) ==
    [canMove |-> move, tile |-> t, isSelectableCombatant |-> combatant,
     primaryWeapon |-> primary, secondaryWeapon |-> secondary]

\* What getUnitData(id) can answer while the unit exists, in the combat model:
\* the infantry is near, far or inside a transport; the aircraft near or far;
\* the vehicle near, far, or deployed into a structure (immobile, no combatant).
CombatUnitData(id) ==
    CASE id % 3 = 1 -> { CombatUnit(TRUE, Some(Tile(0, 0)), TRUE, Null, Some(3)),
                         CombatUnit(TRUE, Some(Tile(40, 0)), TRUE, Null, Some(3)),
                         CombatUnit(TRUE, Null, TRUE, Null, Some(3)) }
      [] id % 3 = 2 -> { CombatUnit(TRUE, Some(Tile(4, 0)), TRUE, Some(6), Null),
                         CombatUnit(TRUE, Some(Tile(70, 0)), TRUE, Some(6), Null) }
      [] OTHER      -> { CombatUnit(TRUE, Some(Tile(2, 0)), TRUE, Null, Null),
                         CombatUnit(TRUE, Some(Tile(60, 0)), TRUE, Null, Null),
                         CombatUnit(FALSE, Some(Tile(2, 0)), FALSE, Null, Null) }

\* What the world engine can make of a unit: any of the above, and the
\* aircraft can be shot down (its id resolves no more).
CombatWorldData(id) ==
    { Some(d) : d \in CombatUnitData(id) } \cup (IF id % 3 = 2 THEN {Null} ELSE {})

\* The memberships the allocator has given the squad.
CombatMemberships == { << >>, <<1>>, <<2>>, <<1, 3>>, <<1, 2, 3>> }

\* The hostile index the awareness built before the squads are updated.
CombatHostileIndex ==
    { [x |-> 1, y |-> 0, data |-> 8], [x |-> 60, y |-> 1, data |-> 9] }

CombatTickValues == {1, 11, 12, 23}

-----------------------------------------------------------------------------
(* part_001:55-136 CombatSquad.onAiUpdate and what it calls *)

\* !this.lastCommand, !this.lastGrab: null and 0 are both falsy.
isFalsyTick(t) == IsNull(t) \/ Val(t) = 0

\* The selectable combatants that move on the ground only.
selectableCombatantsOnGround(game, ids) ==
    SelectSeq(ids, LAMBDA unitId :
        /\ ~IsNull(getUnitData(game, unitId))
        /\ Val(getUnitData(game, unitId)).isSelectableCombatant
        /\ isGroundUnit(unitId))

\* line 71: getUnitsMatching (squad.ts:135-140) with the filter
\* (r) => r.rules.isSelectableCombatant, as the ids of the units it returns.
selectableCombatants(game, ids) ==
    SelectSeq(ids, LAMBDA unitId :
        /\ ~IsNull(getUnitData(game, unitId))
        /\ Val(getUnitData(game, unitId)).isSelectableCombatant)

\* lines 74-81: getUnitsMatching with the filter of the selectable combatants
\* of movement zone Infantry, Normal or InfantryDestroyer.
groundCombatants(game, ids) ==
    SelectSeq(ids, LAMBDA unitId :
        /\ ~IsNull(getUnitData(game, unitId))
        /\ Val(getUnitData(game, unitId)).isSelectableCombatant
        /\ isGroundUnit(unitId))

\* The same comparison with the two margins exchanged (5 for 15, 15 for 5).
exceedsGatherRadiusExchanged(distanceSq, n, radius) ==
    LET other == MIN_GATHER_RADIUS + MAX_GATHER_RADIUS - radius
        L == distanceSq - GATHER_RATIO * GATHER_RATIO * n - other * other
    IN L > 0 /\ L * L > 4 * GATHER_RATIO * GATHER_RATIO * other * other * n

\* maxDistance > GameMath.sqrt(n) * GATHER_RATIO + radius, with maxDistance the
\* root of distanceSq: for L = distanceSq - GATHER_RATIO^2 n - radius^2 the
\* comparison is L > 2 GATHER_RATIO radius sqrt(n), that is L > 0 and
\* L^2 > 4 GATHER_RATIO^2 radius^2 n.
exceedsGatherRadius(distanceSq, n, radius) ==
    LET L == distanceSq - GATHER_RATIO * GATHER_RATIO * n - radius * radius
    IN L > 0 /\ L * L > 4 * GATHER_RATIO * GATHER_RATIO * radius * radius * n

\* The same test without the lookup of the center tile on the map.
mustGatherAnyTile(center, maxDistance, n, radius) ==
    /\ ~IsNull(center)
    /\ ~IsNull(maxDistance)
    /\ Val(maxDistance) # 0
    /\ exceedsGatherRadius(Val(maxDistance), n, radius)

\* lines 85-90 and 101-106: centerOfMass && maxDistance && getTile(...) !==
\* undefined && maxDistance > requiredGatherRadius.  A distance of 0 is falsy.
mustGather(center, maxDistance, n, radius) ==
    /\ ~IsNull(center)
    /\ ~IsNull(maxDistance)
    /\ Val(maxDistance) # 0
    /\ tileExists(Val(center).x, Val(center).y)
    /\ exceedsGatherRadius(Val(maxDistance), n, radius)

\* An intent pushed to the action batcher.
Intent(k, id, target, px, py) ==
    [kind |-> k, unitId |-> id, targetId |-> target, x |-> px, y |-> py]

\* part_001:92, 123: what manageMoveMicro(unit, point) hands to the batcher,
\* a move of the unit to the point.
pushedMove(unitId, point) == Intent("move", unitId, 0, point.x, point.y)

\* part_001:120: what manageAttackMicro(unit, bestUnit) hands to the batcher,
\* an attack of the unit on the target.
pushedAttack(unitId, targetId) == Intent("attack", unitId, targetId, 0, 0)

\* getAttackWeight(unit, target) of common.js: the weight of a target.
getAttackWeight(unitId, target) == target

\* line 118: maxBy(nearbyHostiles, (target) => getAttackWeight(unit, target)),
\* the candidate of the largest weight, null when there is none.
maxByAttackWeight(unitId, candidates) ==
    IF candidates = {} THEN Null
    ELSE Some(CHOOSE c \in candidates : \A d \in candidates :
                  getAttackWeight(unitId, d) <= getAttackWeight(unitId, c))

\* line 114: primaryWeapon?.maxRange ?? secondaryWeapon?.maxRange ?? 5
weaponRange(unit) ==
    IF ~IsNull(unit.primaryWeapon) THEN Val(unit.primaryWeapon)
    ELSE IF ~IsNull(unit.secondaryWeapon) THEN Val(unit.secondaryWeapon)
    ELSE 5

\* lines 113-125: the intent of one unit in the attack loop.
attackIntent(game, quadtree, unitId, targetPoint) ==
    LET unit == Val(getUnitData(game, unitId))
        nearbyHostiles == getHostilesNearPoint(quadtree, Val(unit.tile).rx,
                              Val(unit.tile).ry, weaponRange(unit) * 2)
        bestUnit == maxByAttackWeight(unitId, { h.unitId : h \in nearbyHostiles })
    IN IF ~IsNull(bestUnit) THEN pushedAttack(unitId, Val(bestUnit))
       ELSE pushedMove(unitId, targetPoint)

\* lines 112-126: the loop stops where `unit.tile` is undefined: destructuring
\* it throws.  The number of units the loop handles before that.
attackLoopLength(game, units) ==
    LET tileless == { i \in 1..Len(units) : IsNull(Val(getUnitData(game, units[i])).tile) }
    IN IF tileless = {} THEN Len(units)
       ELSE (CHOOSE i \in tileless : \A j \in tileless : i <= j) - 1

\* lines 130-135: the grab due at this tick.
grabDue(grab, currentTick) ==
    isFalsyTick(grab) \/ currentTick > Val(grab) + GRAB_INTERVAL_TICKS

\* line 132: grabCombatants(mission.getCenterOfMass() ?? this.rallyArea, GRAB_RADIUS)
grabCombatants(center) ==
    LET point == IF IsNull(center) THEN RallyArea ELSE Val(center)
    IN [type |-> "grab", x |-> point.x, y |-> point.y, radius |-> GRAB_RADIUS]

noop == [type |-> "noop", x |-> 0, y |-> 0, radius |-> 0]

CombatInit ==
    /\ state = "Gathering"
    /\ lastCommand = Null
    /\ lastGrab = Null
    /\ targetArea \in TargetAreas
    /\ actionBatcher = << >>
    /\ combatOutcome = NoCombatOutcome

\* part_001:55-136 CombatSquad.onAiUpdate, the mission's accessors answering
\* ids, center and maxDistance.
CombatSquadOnAiUpdate(ids, center, maxDistance) ==
    LET evaluates ==
            /\ Len(ids) > 0
            /\ \/ isFalsyTick(lastCommand)
               \/ tick > Val(lastCommand) + TARGET_UPDATE_INTERVAL_TICKS
        units == selectableCombatants(unitData, ids)
        groundUnits == groundCombatants(unitData, ids)
        gathering == evaluates /\ state = "Gathering"
        attacking == evaluates /\ state = "Attacking"
        keepsGathering ==
            gathering /\ mustGather(center, maxDistance, Len(groundUnits), MIN_GATHER_RADIUS)
        reverts ==
            attacking /\ mustGather(center, maxDistance, Len(groundUnits), MAX_GATHER_RADIUS)
        attacks == attacking /\ ~reverts
        targetPoint == IF ~IsNull(targetArea) THEN Val(targetArea) ELSE StartLocation
        handled == attackLoopLength(unitData, units)
        raises == attacks /\ handled < Len(units)
        pushes ==
            IF keepsGathering
            THEN [i \in 1..Len(units) |-> pushedMove(units[i], Val(center))]
            ELSE IF attacks
            THEN [i \in 1..handled |->
                     attackIntent(unitData, hostileQuadTree, units[i], targetPoint)]
            ELSE << >>
        grabs == ~reverts /\ ~raises /\ grabDue(lastGrab, tick)
    IN /\ lastCommand' = IF evaluates THEN Some(tick) ELSE lastCommand
       /\ state' = IF gathering /\ ~keepsGathering THEN "Attacking"
                   ELSE IF reverts THEN "Gathering"
                   ELSE state
       /\ actionBatcher' = pushes
       /\ lastGrab' = IF grabs THEN Some(tick) ELSE lastGrab
       /\ combatOutcome' =
             [op |-> "update", evaluated |-> evaluates, stateBefore |-> state,
              raised |-> raises,
              returned |-> IF raises THEN NoCombatOutcome.returned
                           ELSE IF grabs THEN grabCombatants(center)
                           ELSE noop]
       /\ UNCHANGED targetArea

\* Squad.onAiUpdate with a CombatSquad for behaviour: squad.ts:103 calls it when
\* the mission is set and active.
CombatMissionOnAiUpdate ==
    /\ SquadUpdate
    /\ IF outcomeOfUpdate(mission, activeMissions) = "behaviour"
       THEN CombatSquadOnAiUpdate(unitIds', centerOfMass', maxDistanceToCenterOfMass')
       ELSE combatOutcome' = NoCombatOutcome /\ UNCHANGED combatState
    /\ UNCHANGED <<awVars, orderVars>>

\* part_001:51-53 CombatSquad.setAttackArea
SetAttackArea(area) ==
    /\ targetArea # area
    /\ targetArea' = area
    /\ combatOutcome' = NoCombatOutcome
    /\ UNCHANGED <<state, lastCommand, lastGrab, actionBatcher,
                   squadVars, awVars, orderVars>>

-----------------------------------------------------------------------------
(* squad.ts:476-532 LoadOntoTransportHandler *)

LOAD_TIME_LIMIT == 300

NoHandlerOutcome == [op |-> "none", result |-> "none"]

\* squad.ts:479-482: the fields of a new handler.
HandlerInit ==
    /\ transporters = Null
    /\ transporteesToTransport = << >>
    /\ abortAt = Null
    /\ handlerOutcome = NoHandlerOutcome

\* The units of a loading mission: rules.passengers and rules.size.
LoadUnit(p, sz) == [passengers |-> p, size |-> sz]

\* Two infantry sizes, a transport of 2 slots that has a size itself, and a
\* transport of 3 slots; unit 3 may be a unit that no longer resolves.
LoadUnitData(id) ==
    { Some(LoadUnit(0, 1)), Some(LoadUnit(0, 2)), Some(LoadUnit(2, 3)), Some(LoadUnit(3, 0)) }
      \cup (IF id = 3 THEN {Null} ELSE {})

LoadTickValues == {1, 300, 301, 302}

\* squad.ts:121-126 Squad.getUnits: the members that resolve, in membership order.
getUnits(game, ids) == SelectSeq(ids, LAMBDA unitId : ~IsNull(game[unitId]))

\* A JavaScript Map is the sequence of its <<key, value>> entries in insertion
\* order.  Map.set replaces the value of a key in place or appends an entry.
mapSet(entries, k, v) ==
    IF \E i \in 1..Len(entries) : entries[i][1] = k
    THEN [i \in 1..Len(entries) |-> IF entries[i][1] = k THEN <<k, v>> ELSE entries[i]]
    ELSE Append(entries, <<k, v>>)

\* Map.delete
mapDelete(entries, k) == SelectSeq(entries, LAMBDA e : e[1] # k)

\* squad.ts:492: new Map(transportUnits.map((t) => [t.id, t.rules.passengers]))
RECURSIVE remainingSizesOf(_, _)
remainingSizesOf(game, transportUnits) ==
    IF transportUnits = << >> THEN << >>
    ELSE LET n == Len(transportUnits)
         IN mapSet(remainingSizesOf(game, SubSeq(transportUnits, 1, n - 1)),
                   transportUnits[n], Val(game[transportUnits[n]]).passengers)

\* The choice that would ignore the unit's size: the last transport with a slot left.
fittingTransportAnySize(remainingSizes, size) ==
    IF remainingSizes = << >> THEN Null ELSE Some(remainingSizes[Len(remainingSizes)])

\* squad.ts:500-501: the last entry of remainingSizes with size >= unit.rules.size.
fittingTransport(remainingSizes, size) ==
    LET fits == SelectSeq(remainingSizes, LAMBDA e : e[2] >= size)
    IN IF fits = << >> THEN Null ELSE Some(fits[Len(fits)])

\* squad.ts:498-511: the while loop; transportedUnits.pop() takes the last one.
\* The result is the Map of the assignments with, for every iteration, the
\* unit popped and the remainingSizes it was offered.
RECURSIVE assignTransportees(_, _, _, _, _)
assignTransportees(game, transportedUnits, remainingSizes, assigned, steps) ==
    IF ~(Len(transportedUnits) > 0 /\ Len(remainingSizes) > 0)
    THEN [assigned |-> assigned, steps |-> steps]
    ELSE LET unit == transportedUnits[Len(transportedUnits)]
             rest == SubSeq(transportedUnits, 1, Len(transportedUnits) - 1)
             size == Val(game[unit]).size
             fit == fittingTransport(remainingSizes, size)
             step == [unit |-> unit, remainingSizes |-> remainingSizes]
         IN IF IsNull(fit)
            THEN assignTransportees(game, rest, remainingSizes, assigned, Append(steps, step))
            ELSE LET transportId == Val(fit)[1]
                     slots == Val(fit)[2]
                     left == mapSet(remainingSizes, transportId, slots - size)
                 IN assignTransportees(game, rest,
                        IF slots - size = 0 THEN mapDelete(left, transportId) ELSE left,
                        mapSet(assigned, unit, transportId), Append(steps, step))

\* squad.ts:486-496: the transports and the units to transport of the mission.
transportUnitsOf(game, ids) ==
    SelectSeq(getUnits(game, ids), LAMBDA u : Val(game[u]).passengers > 0)

transportedUnitsOf(game, ids) ==
    SelectSeq(getUnits(game, ids), LAMBDA u :
        /\ Val(game[u]).size > 0
        /\ ~(\E i \in 1..Len(transportUnitsOf(game, ids)) : transportUnitsOf(game, ids)[i] = u))

\* actionsApi.orderUnits(unitIds, orderType, ...args)
orderUnits(ids, orderType, args) == [unitIds |-> ids, orderType |-> orderType, args |-> args]

\* squad.ts:484-515 LoadOntoTransportHandler.onStart.  The step runner creates
\* a handler for the step (squad.ts:447-458) and starts it once.
OnStart ==
    LET transportUnits == transportUnitsOf(unitData, unitIds)
        transportedUnits == transportedUnitsOf(unitData, unitIds)
    IN /\ IsNull(transporters)
       /\ transporters' = Some(transportUnits)
       /\ transporteesToTransport' =
             assignTransportees(unitData, transportedUnits,
                                remainingSizesOf(unitData, transportUnits),
                                transporteesToTransport, << >>).assigned
       /\ orders' = << orderUnits(transportUnits, "DeploySelected", << >>) >>
       /\ abortAt' = Some(tick + LOAD_TIME_LIMIT)
       /\ handlerOutcome' = [op |-> "onStart", result |-> "none"]
       /\ UNCHANGED <<squadVars, awVars, combatVars, microVars, batcherVars>>

\* The same condition without the deadline.
stepsOnNeverStarted(t, transportIds, deadline) == IsNull(transportIds)

\* squad.ts:518-522: the condition under which onStep returns step.
stepsOn(t, transportIds, deadline) ==
    IsNull(transportIds) \/ (~isFalsyTick(deadline) /\ t > Val(deadline))

\* The orders read by the names of the callback's parameters: the value
\* ordered into the key.
enterTransportOrdersByValue(transportees) ==
    [i \in 1..Len(transportees) |->
        orderUnits(<< transportees[i][2] >>, "EnterTransport", << transportees[i][1] >>)]

\* squad.ts:525-527: Map.forEach hands the callback (value, key), so the
\* key, a passenger, is ordered into the value, its transport.
enterTransportOrders(transportees) ==
    [i \in 1..Len(transportees) |->
        orderUnits(<< transportees[i][1] >>, "EnterTransport", << transportees[i][2] >>)]

\* squad.ts:517-531 LoadOntoTransportHandler.onStep.
OnStep ==
    /\ handlerOutcome' =
          [op |-> "onStep",
           result |-> IF stepsOn(tick, transporters, abortAt) THEN "step" ELSE "repeat"]
    /\ orders' =
          IF stepsOn(tick, transporters, abortAt) THEN << >>
          ELSE enterTransportOrders(transporteesToTransport)
    /\ UNCHANGED <<squadVars, awVars, combatVars, transporters, transporteesToTransport,
                   abortAt, microVars, batcherVars>>

-----------------------------------------------------------------------------
(* part_000: the micro policy *)

\* The UnitData the micro policy reads of the attacker and of the target.
MicroAttacker(nm, st, as, primary, secondary) ==
    [id |-> 1, name |-> nm, stance |-> st, attackState |-> as,
     primaryWeapon |-> primary, secondaryWeapon |-> secondary, tile |-> Tile(0, 0)]

MicroTarget(ty, disguise, t) ==
    [id |-> 8, type |-> ty, canDisguise |-> disguise, tile |-> t]

\* A conscript (E1, deployable) or a tank, deployed or not, having just fired
\* or not, with a deployed weapon of range 7, of range 0 or none.
MicroAttackers ==
    { MicroAttacker(nm, st, as, Some(4), secondary) :
        nm \in {"E1", "HTNK"}, st \in {"None", "Deployed"},
        as \in {"Idle", "JustFired"}, secondary \in {Null, Some(0), Some(7)} }

\* A building or a vehicle at distance 3, 5, 6 or 8 of the attacker.
MicroTargets ==
    { MicroTarget(ty, disguise, Tile(d, 0)) :
        ty \in {"Building", "Vehicle"}, disguise \in BOOLEAN, d \in {3, 5, 6, 8} }

AttackPoints == { [x |-> 1, y |-> 1], [x |-> 60, y |-> 0] }

\* getDistanceBetweenUnits of map.js, squared: the distance of the two tiles.
getDistanceBetweenUnitsSq(a, t) ==
    (a.tile.rx - t.tile.rx) * (a.tile.rx - t.tile.rx)
      + (a.tile.ry - t.tile.ry) * (a.tile.ry - t.tile.ry)

\* The range of the weapon, 0 when there is none.
maxRangeOr0(weapon) == IF IsNull(weapon) THEN 0 ELSE Val(weapon)

\* weapon?.maxRange || 5
maxRangeOr5(weapon) == IF IsNull(weapon) \/ Val(weapon) = 0 THEN 5 ELSE Val(weapon)

\* part_000:5-13 manageMoveMicro: the orders it gives, in order.
manageMoveMicro(a, attackPoint) ==
    (IF a.name = "E1" /\ a.stance = "Deployed"
     THEN << orderUnits(<< a.id >>, "DeploySelected", << >>) >>
     ELSE << >>)
    \o << orderUnits(<< a.id >>, "Move", << attackPoint.x, attackPoint.y >>) >>

\* part_000:29-37: the order type of the attack (distance < range * 0.8 is
\* 25 * distance^2 < 16 * range^2).
attackOrderType(a, t) ==
    IF t.type = "Building"
       /\ 25 * getDistanceBetweenUnitsSq(a, t)
            < 16 * maxRangeOr5(a.primaryWeapon) * maxRangeOr5(a.primaryWeapon)
    THEN "Attack"
    ELSE IF t.canDisguise THEN "Attack"
    ELSE "Attack"

\* part_000:15-39 manageAttackMicro: the orders it gives, in order.
manageAttackMicro(a, t) ==
    LET deployedWeaponRange == maxRangeOr5(a.secondaryWeapon)
        isDeployed == a.stance = "Deployed"
        inRange == getDistanceBetweenUnitsSq(a, t) <= deployedWeaponRange * deployedWeaponRange
    IN IF a.name = "E1" /\ ~isDeployed /\ (inRange \/ a.attackState = "JustFired")
       THEN << orderUnits(<< a.id >>, "DeploySelected", << >>) >>
       ELSE IF a.name = "E1" /\ isDeployed /\ ~inRange
       THEN << orderUnits(<< a.id >>, "DeploySelected", << >>) >>
       ELSE << orderUnits(<< a.id >>, attackOrderType(a, t), << t.id >>) >>

\* A behaviour tells the attacker to move to a point.
ManageMoveMicro(attackPoint) ==
    /\ ~IsNull(microAttacker)
    /\ orders' = manageMoveMicro(Val(microAttacker), attackPoint)
    /\ UNCHANGED <<squadVars, awVars, combatVars, handlerVars, microVars, batcherVars>>

\* A behaviour tells the attacker to attack the target.
ManageAttackMicro ==
    /\ ~IsNull(microAttacker) /\ ~IsNull(microTarget)
    /\ orders' = manageAttackMicro(Val(microAttacker), Val(microTarget))
    /\ UNCHANGED <<squadVars, awVars, combatVars, handlerVars, microVars, batcherVars>>

MicroIdle == microAttacker = Null /\ microTarget = Null

-----------------------------------------------------------------------------
(* The action coalescer (ActionBatcher): pending actions keyed by agent id *)

MaxPushes == 3

\* The intents behaviours push: for agent 1 or 2 a move, an attack or a deploy.
BatchIntents ==
    UNION { { Intent("move", id, 0, 1, 1), Intent("attack", id, 8, 0, 0),
              Intent("deploy", id, 0, 0, 0) } : id \in {1, 2} }

\* The push that would keep the first intent of an agent.
pushFirstWins(entries, intent) ==
    IF \E i \in 1..Len(entries) : entries[i][1] = intent.unitId THEN entries
    ELSE Append(entries, << intent.unitId, intent >>)

\* push: the pending action of the agent becomes the intent (last write wins).
push(entries, intent) == mapSet(entries, intent.unitId, intent)

\* The order that carries out an intent.
orderOfIntent(intent) ==
    IF intent.kind = "move"
    THEN orderUnits(<< intent.unitId >>, "Move", << intent.x, intent.y >>)
    ELSE IF intent.kind = "attack"
    THEN orderUnits(<< intent.unitId >>, "Attack", << intent.targetId >>)
    ELSE orderUnits(<< intent.unitId >>, "DeploySelected", << >>)

\* flush: one order for every pending action.
flush(entries) == [i \in 1..Len(entries) |-> orderOfIntent(entries[i][2])]

BatcherInit == pending = << >> /\ pushed = << >>

\* A behaviour pushes an intent.  The first push after a flush begins the
\* record of the next tick.
Push(intent) ==
    LET sofar == IF pending = << >> THEN << >> ELSE pushed
    IN /\ Len(sofar) < MaxPushes
       /\ pushed' = Append(sofar, intent)
       /\ pending' = push(pending, intent)
       /\ UNCHANGED <<squadVars, awVars, combatVars, handlerVars, microVars, orders>>

\* The end of the tick: the pending actions are issued and cleared.
Flush ==
    /\ pending # << >>
    /\ orders' = flush(pending)
    /\ pending' = << >>
    /\ UNCHANGED <<squadVars, awVars, combatVars, handlerVars, microVars, pushed>>

\* No handler step runs, the micro policy is not called, nothing is pushed.
OrdersIdle ==
    /\ HandlerInit
    /\ MicroIdle
    /\ BatcherInit
    /\ orders = << >>

-----------------------------------------------------------------------------
(* The specifications *)

\* The squad, with no awareness operation.
SquadGameInit ==
    /\ SquadInit
    /\ AwInit({ << Player(Self, TRUE, TRUE), Player("enemy", TRUE, FALSE) >> }, {ASSUMED_TICK_RATE})
    /\ CombatInit /\ targetArea = Null
    /\ OrdersIdle

SpecSquad == SquadGameInit /\ [][SquadNext]_vars

\* The awareness of the threat: the attack flag, the threat cache, the rally
\* point.  The hostile list is empty or holds one unit without a tile.
AwarenessInit ==
    /\ AwInit(PlayerConfigs, TickRates) /\ SquadIdle /\ CombatInit /\ targetArea = Null
    /\ OrdersIdle

AwarenessNext ==
    \/ \E t \in TickValues : GameTick(t)
    \/ \E point \in QueryPoints : \E radius \in QueryRadii : QueryHostiles(point, radius)
    \/ \E units \in { << >>, << Some(Hostile(2, "enemy", Null)) >> } :
       \E visibility \in VisibilityValues : \E threat \in ThreatSnapshots :
          AwarenessOnAiUpdate(units, visibility, threat)

SpecAwareness == AwarenessInit /\ [][AwarenessNext]_vars

\* The hostile index: rebuilt from lists of visible units, and queried.
IndexInit ==
    /\ AwInit({ << Player(Self, TRUE, TRUE), Player("enemy", TRUE, FALSE) >> },
              {ASSUMED_TICK_RATE})
    /\ SquadIdle /\ CombatInit /\ targetArea = Null
    /\ OrdersIdle

IndexNext ==
    \/ \E t \in {15, 30} : GameTick(t)
    \/ \E units \in VisibleUnitLists :
          AwarenessOnAiUpdate(units, 0, GlobalThreat(0, 0, 0, 0, 0, 0))
    \/ \E point \in QueryPoints : \E radius \in QueryRadii : QueryHostiles(point, radius)

SpecIndex == IndexInit /\ [][IndexNext]_vars

\* A combat squad of a running mission: the game ticks, the world changes the
\* units, the squad is updated with its CombatSquad behaviour.
CombatGameInit ==
    /\ unitData \in [UnitIds -> UNION { { Some(d) : d \in CombatUnitData(id) } : id \in UnitIds }]
    /\ \A id \in UnitIds : Val(unitData[id]) \in CombatUnitData(id)
    /\ unitIds \in CombatMemberships
    /\ liveness = "SquadActive"
    /\ killable = FALSE
    /\ centerOfMass = Null
    /\ maxDistanceToCenterOfMass = Null
    /\ mission = Some("m1")
    /\ activeMissions = Missions
    /\ squadOutcome = "none"
    /\ removeSquadCalls = << >>
    /\ staleUnitIds = << >>
    /\ tick = 0
    /\ tickRate = ASSUMED_TICK_RATE
    /\ players = << Player(Self, TRUE, TRUE), Player("enemy", TRUE, FALSE) >>
    /\ hostileQuadTree = CombatHostileIndex
    /\ threatCache = Null
    /\ shouldAttack = FALSE
    /\ mainRallyPoint = [from |-> "constructor", towards |-> "constructor", radius |-> 0]
    /\ awOutcome = NoAwOutcome
    /\ lastQuery = [x |-> 0, y |-> 0, radius |-> 0, result |-> {}]
    /\ CombatInit
    /\ OrdersIdle

CombatNext ==
    \/ \E t \in CombatTickValues : GameTick(t)
    \/ \E id \in UnitIds : \E d \in CombatWorldData(id) : WorldChanges(id, d)
    \/ \E area \in TargetAreas : SetAttackArea(area)
    \/ CombatMissionOnAiUpdate

SpecCombat == CombatGameInit /\ [][CombatNext]_vars

\* A loading step of a scripted mission: the handler is started and then
\* re-entered while the game ticks.
TransportInit ==
    /\ unitData \in [UnitIds -> UNION { LoadUnitData(id) : id \in UnitIds }]
    /\ \A id \in UnitIds : unitData[id] \in LoadUnitData(id)
    /\ unitIds \in UNION { [1..n -> UnitIds] : n \in 0..MaxSquadSize }
    /\ liveness = "SquadActive"
    /\ killable = FALSE
    /\ centerOfMass = Null
    /\ maxDistanceToCenterOfMass = Null
    /\ mission = Some("m1")
    /\ activeMissions = Missions
    /\ squadOutcome = "none"
    /\ removeSquadCalls = << >>
    /\ staleUnitIds = << >>
    /\ AwInit({ << Player(Self, TRUE, TRUE), Player("enemy", TRUE, FALSE) >> },
              {ASSUMED_TICK_RATE})
    /\ CombatInit /\ targetArea = Null
    /\ OrdersIdle

TransportNext ==
    \/ \E t \in LoadTickValues : GameTick(t)
    \/ OnStart
    \/ OnStep

SpecTransport == TransportInit /\ [][TransportNext]_vars

\* The micro policy applied to an attacker and a target.
MicroInit ==
    /\ SquadIdle
    /\ AwInit({ << Player(Self, TRUE, TRUE), Player("enemy", TRUE, FALSE) >> },
              {ASSUMED_TICK_RATE})
    /\ CombatInit /\ targetArea = Null
    /\ HandlerInit
    /\ BatcherInit
    /\ microAttacker \in { Some(a) : a \in MicroAttackers }
    /\ microTarget \in { Some(t) : t \in MicroTargets }
    /\ orders = << >>

MicroNext ==
    \/ \E attackPoint \in AttackPoints : ManageMoveMicro(attackPoint)
    \/ ManageAttackMicro

SpecMicro == MicroInit /\ [][MicroNext]_vars

\* The coalescer over the ticks: behaviours push, the tick's end flushes.
CoalescerInit ==
    /\ SquadIdle
    /\ AwInit({ << Player(Self, TRUE, TRUE), Player("enemy", TRUE, FALSE) >> },
              {ASSUMED_TICK_RATE})
    /\ CombatInit /\ targetArea = Null
    /\ OrdersIdle

CoalescerNext ==
    \/ \E intent \in BatchIntents : Push(intent)
    \/ Flush

SpecCoalescer == CoalescerInit /\ [][CoalescerNext]_vars

-----------------------------------------------------------------------------
(* Claims about the Squad, checked under SpecSquad *)

\* The last step was Squad.onAiUpdate.
SquadJustUpdated == squadOutcome # "none"

\* C1: for a killable squad, an update at which no member id resolves leaves
\* the liveness SquadDead, and once the liveness is SquadDead every further
\* addUnit, removeUnit, setMission and onAiUpdate leaves it SquadDead.
C1_DeadIsFinal ==
    [][ /\ (killable /\ SquadJustUpdated' /\ Len(unitIds') = 0)
            => liveness' = "SquadDead"
        /\ liveness = "SquadDead" => liveness' = "SquadDead" ]_vars

\* A dead squad that was given a live unit again and updated: still dead.
C1_Witness ==
    /\ killable /\ SquadJustUpdated
    /\ liveness = "SquadDead"
    /\ Len(unitIds) > 0

\* C2: a squad that is not killable is SquadActive in every reachable state.
C2_NonKillableStaysActive == ~killable => liveness = "SquadActive"

\* A non-killable squad updated with an empty membership, its unit destroyed.
C2_Witness ==
    /\ ~killable /\ SquadJustUpdated
    /\ unitIds = << >>
    /\ \E id \in UnitIds : IsNull(unitData[id])

\* c is s / n rounded to the nearest integer, a half rounding up.
IsRoundedMean(c, s, n) == 2 * s - n < 2 * n * c /\ 2 * n * c <= 2 * s + n

\* C3: after every Squad.onAiUpdate, with T the tile positions the update
\* used for the cohesion (one per member fed to calculateCenterOfMass): T
\* empty gives a null centre and a null spread; otherwise the centre is the
\* rounded component-wise mean of T and the spread the largest distance from a
\* position of T to that centre.
C3_CohesionOfTiles ==
    SquadJustUpdated =>
        LET T == movableUnitTiles(unitData, unitIds)
            n == Len(T)
        IN IF n = 0
           THEN centerOfMass = Null /\ maxDistanceToCenterOfMass = Null
           ELSE /\ ~IsNull(centerOfMass) /\ ~IsNull(maxDistanceToCenterOfMass)
                /\ IsRoundedMean(Val(centerOfMass).x, SumRx(T), n)
                /\ IsRoundedMean(Val(centerOfMass).y, SumRy(T), n)
                /\ \A i \in 1..n :
                      getDistanceBetweenPointsSq([x |-> T[i].rx, y |-> T[i].ry],
                          Val(centerOfMass)) <= Val(maxDistanceToCenterOfMass)
                /\ \E i \in 1..n :
                      getDistanceBetweenPointsSq([x |-> T[i].rx, y |-> T[i].ry],
                          Val(centerOfMass)) = Val(maxDistanceToCenterOfMass)

\* An update over two members on different tiles whose mean x is a half.
C3_Witness ==
    /\ SquadJustUpdated
    /\ LET T == movableUnitTiles(unitData, unitIds)
       IN /\ Len(T) = 2
          /\ SumRx(T) = 1
          /\ centerOfMass = Some([x |-> 1, y |-> 0])
          /\ maxDistanceToCenterOfMass = Some(1)

\* The tiles of the members that can move and are ground units.
movableGroundUnitTiles(game, ids) ==
    movableUnitTiles(game, SelectSeq(ids, LAMBDA unitId : isGroundUnit(unitId)))

\* C4: the cohesion an update caches is the cohesion of the tiles of the
\* members that can move AND are ground units: an aircraft changes neither
\* the centre nor the spread.
C4_OnlyGroundUnitsCount ==
    SquadJustUpdated =>
        LET tileMetrics == calculateCenterOfMass(movableGroundUnitTiles(unitData, unitIds))
        IN IF IsNull(tileMetrics)
           THEN centerOfMass = Null /\ maxDistanceToCenterOfMass = Null
           ELSE /\ centerOfMass = Some(Val(tileMetrics).centerOfMass)
                /\ maxDistanceToCenterOfMass = Some(Val(tileMetrics).maxDistance)

-----------------------------------------------------------------------------
(* Claims about MatchAwarenessImpl, checked under SpecAwareness and SpecIndex *)

\* The last step was MatchAwarenessImpl.onAiUpdate.
AwJustUpdated == awOutcome.op = "update"

\* The last step was an onAiUpdate at a multiple of 30 ticks with a non-zero
\* overall visibility: a scheduled evaluation of the attack flag.
AwJustEvaluated == AwJustUpdated /\ tick % 30 = 0 /\ awOutcome.visibility # 0

\* C5: shouldAttack() starts false and changes only in an onAiUpdate whose tick
\* is a multiple of 30 and at which the overall visibility is not zero; every
\* other update, every query and every tick of the game leaves it as it was.
C5_FlagChangesOnlyWhenScheduled ==
    /\ shouldAttack = FALSE
    /\ [][ shouldAttack' # shouldAttack => AwJustEvaluated' ]_vars

\* The flag, once true, kept through an update off the schedule although the
\* sectors are visible.
C5_Witness ==
    /\ AwJustUpdated /\ tick % 30 # 0 /\ awOutcome.visibility # 0
    /\ shouldAttack

\* The hysteresis rule as the specification words it: the game length factor
\* over `rate` ticks per second, and `airThreat` in the air term.
RuleOfSpec(threat, wasAttacking, t, rate, airThreat) ==
    LET horizon == rate * 7200
        left == IF t >= horizon THEN 0 ELSE horizon - t
        g == Gcd(left, horizon)
        quarters == IF wasAttacking THEN 3 ELSE 5
        factor == << quarters * (left \div g), 4 * (horizon \div g) >>
    IN \/ PowExceeds(threat.totalAvailableAntiGroundFirepower,
              << 11 * (factor[1] * threat.totalOffensiveLandThreat
                         + factor[2] * threat.totalDefensiveThreat), 10 * factor[2] >>)
       \/ PowExceeds(threat.totalAvailableAirPower,
              << 11 * (factor[1] * airThreat
                         + factor[2] * threat.totalDefensiveThreat), 10 * factor[2] >>)

\* C6 as claimed: at each scheduled evaluation the new flag is the rule with
\* the game's tick rate and the enemy's offensive air threat in the air term.
C6_RuleWithTickRateAndAirThreat ==
    [][ AwJustEvaluated' =>
          shouldAttack' = RuleOfSpec(Val(threatCache'), shouldAttack, tick', tickRate',
                              Val(threatCache').totalOffensiveAirThreat) ]_vars

\* C6 as amended: at each scheduled evaluation the new flag is the rule with
\* 15 ticks per second, whatever the game's tick rate, and the enemy's
\* offensive anti-air threat in the air term; the factor is 1.25 times the
\* game length factor from defend and 0.75 times it from attack.
C6_RuleWithFifteenAndAntiAirThreat ==
    [][ AwJustEvaluated' =>
          shouldAttack' = RuleOfSpec(Val(threatCache'), shouldAttack, tick', 15,
                              Val(threatCache').totalOffensiveAntiAirThreat) ]_vars

\* An evaluation on a snapshot that starts no attack from defend mode and
\* keeps one from attack mode, the flag being true after it.
C6_Witness ==
    /\ AwJustEvaluated
    /\ threatCache = Some(GlobalThreat(100, 100, 0, 0, 0, 0))
    /\ tick = 30
    /\ shouldAttack

\* C7: every entry a radius query returns lies within the radius of the query
\* point, and a query of an empty index returns nothing.
C7_QueryWithinRadius ==
    awOutcome.op = "query" =>
        /\ \A e \in lastQuery.result :
              getDistanceBetweenPointsSq([x |-> e.x, y |-> e.y],
                  [x |-> lastQuery.x, y |-> lastQuery.y])
                <= lastQuery.radius * lastQuery.radius
        /\ hostileQuadTree = {} => lastQuery.result = {}

\* A query that returned an entry while the tree held a candidate farther away
\* than the radius.
C7_Witness ==
    /\ awOutcome.op = "query"
    /\ lastQuery.result # {}
    /\ \E c \in hostileQuadTree :
          getDistanceBetweenPointsSq([x |-> c.x, y |-> c.y],
              [x |-> lastQuery.x, y |-> lastQuery.y])
            > lastQuery.radius * lastQuery.radius

\* C8: an onAiUpdate whose rebuild of the hostile index fails leaves the index
\* with exactly the entries it held before the update.
C8_FailedRebuildKeepsIndex ==
    [][ (AwJustUpdated' /\ awOutcome'.rebuildFailed)
          => hostileQuadTree' = hostileQuadTree ]_vars

\* C9: no onAiUpdate raises.
C9_UpdateNeverRaises == ~awOutcome.raised

-----------------------------------------------------------------------------
(* Claims about CombatSquad, checked under SpecCombat *)

\* The last step was a CombatSquad.onAiUpdate that ran the gather / attack
\* evaluation, the state being Gathering before it.
GatheringJustEvaluated ==
    /\ combatOutcome.op = "update"
    /\ combatOutcome.evaluated
    /\ combatOutcome.stateBefore = "Gathering"

\* The cohesion the evaluation read is defined, its center tile exists on the
\* map and the spread is at most sqrt(n) * 10 + 5, n the number of ground
\* combat members.
GatheredWithinRadius ==
    /\ ~IsNull(centerOfMass)
    /\ ~IsNull(maxDistanceToCenterOfMass)
    /\ <<Val(centerOfMass).x, Val(centerOfMass).y>> \notin MissingTiles
    /\ LET n == Len(SelectSeq(unitIds, LAMBDA unitId :
                      /\ Val(unitData[unitId]).isSelectableCombatant
                      /\ isGroundUnit(unitId)))
           L == Val(maxDistanceToCenterOfMass) - 100 * n - 25
       IN ~(L > 0 /\ L * L > 10000 * n)

\* C10: a CombatSquad starts in Gathering, and an evaluation in state
\* Gathering switches it to Attacking only when the cohesion is defined, the
\* center tile exists and the spread is at most sqrt(n) * 10 + 5; with an
\* undefined cohesion or a missing center tile the state stays Gathering.
C10_GatheringLeftOnlyWhenGathered ==
    /\ (combatOutcome.op = "none" /\ IsNull(lastCommand)) => state = "Gathering"
    /\ GatheringJustEvaluated =>
          /\ state = "Attacking" => GatheredWithinRadius
          /\ ~GatheredWithinRadius => state = "Gathering"

\* The last step was a CombatSquad.onAiUpdate that ran the gather / attack
\* evaluation, the state being Attacking before it.
AttackingJustEvaluated ==
    /\ combatOutcome.op = "update"
    /\ combatOutcome.evaluated
    /\ combatOutcome.stateBefore = "Attacking"

\* The number of ground combat members the evaluation counted.
GroundCombatCount ==
    Len(SelectSeq(unitIds, LAMBDA unitId :
            Val(unitData[unitId]).isSelectableCombatant /\ isGroundUnit(unitId)))

\* The cohesion the evaluation read is defined, its center tile exists on the
\* map and the spread is above sqrt(n) * 10 + 15.
SpreadBeyondMaxRadius ==
    /\ ~IsNull(centerOfMass)
    /\ ~IsNull(maxDistanceToCenterOfMass)
    /\ <<Val(centerOfMass).x, Val(centerOfMass).y>> \notin MissingTiles
    /\ LET L == Val(maxDistanceToCenterOfMass) - 100 * GroundCombatCount - 225
       IN L > 0 /\ L * L > 90000 * GroundCombatCount

\* C11: an evaluation in state Attacking with a defined cohesion, an existing
\* center tile and a spread above sqrt(n) * 10 + 15 sets the state to Gathering
\* and pushes no intent; every other Attacking evaluation leaves the state
\* Attacking.
C11_AttackingRevertsBeyondMaxRadius ==
    AttackingJustEvaluated =>
        IF SpreadBeyondMaxRadius
        THEN state = "Gathering" /\ actionBatcher = << >>
        ELSE state = "Attacking"

\* An Attacking evaluation that reverted, and the squad has combat members
\* that would otherwise have been given an intent.
C11_Witness ==
    /\ AttackingJustEvaluated
    /\ state = "Gathering"
    /\ SpreadBeyondMaxRadius
    /\ selectableCombatants(unitData, unitIds) # << >>

\* C12: two gather / attack evaluations of a CombatSquad are at least
\* TARGET_UPDATE_INTERVAL_TICKS (10) ticks apart, and two grabCombatants
\* requests it returns are at least GRAB_INTERVAL_TICKS (10) ticks apart,
\* from tick 0 on.  lastCommand and lastGrab hold the tick of the previous
\* evaluation and of the previous request.
C12_EvaluationsAndGrabsTenTicksApart ==
    [][ combatOutcome'.op = "update" =>
          /\ (combatOutcome'.evaluated /\ ~IsNull(lastCommand))
                => tick' >= Val(lastCommand) + 10
          /\ (combatOutcome'.returned.type = "grab" /\ ~IsNull(lastGrab))
                => tick' >= Val(lastGrab) + 10 ]_vars

\* A grab is due at the tick of the last CombatSquad.onAiUpdate: there was no
\* grab before it, or the last one was more than GRAB_INTERVAL_TICKS earlier.
GrabWasDue(previousGrab) ==
    IsNull(previousGrab) \/ tick > Val(previousGrab) + 10

\* C13: every CombatSquad.onAiUpdate at which a grab is due returns
\* grabCombatants(center of mass, or the rally area when the center is
\* undefined, GRAB_RADIUS), whatever the evaluation of that tick did.
C13_GrabReturnedWheneverDue ==
    [][ (combatOutcome'.op = "update"
           /\ (IsNull(lastGrab) \/ tick' > Val(lastGrab) + 10))
          => combatOutcome'.returned =
                [type |-> "grab",
                 x |-> IF IsNull(centerOfMass') THEN RallyArea.x ELSE Val(centerOfMass').x,
                 y |-> IF IsNull(centerOfMass') THEN RallyArea.y ELSE Val(centerOfMass').y,
                 radius |-> 20] ]_vars

\* The intent the claim gives a member in an Attacking evaluation: an attack
\* on the hostile of the largest weight among those of the index within twice
\* the member's weapon range of its tile, else a move to the objective point.
IntentOfClaim(unitId) ==
    LET unit == Val(unitData[unitId])
        range == IF ~IsNull(unit.primaryWeapon) THEN Val(unit.primaryWeapon)
                 ELSE IF ~IsNull(unit.secondaryWeapon) THEN Val(unit.secondaryWeapon)
                 ELSE 5
        near == { h \in hostileQuadTree :
                    /\ ~IsNull(unit.tile)
                    /\ (h.x - Val(unit.tile).rx) * (h.x - Val(unit.tile).rx)
                         + (h.y - Val(unit.tile).ry) * (h.y - Val(unit.tile).ry)
                         <= 4 * range * range }
        objective == IF IsNull(targetArea) THEN StartLocation ELSE Val(targetArea)
    IN IF near # {}
       THEN LET best == CHOOSE h \in near :
                           \A g \in near : getAttackWeight(unitId, g.data)
                                              <= getAttackWeight(unitId, h.data)
            IN [kind |-> "attack", unitId |-> unitId, targetId |-> best.data,
                x |-> 0, y |-> 0]
       ELSE [kind |-> "move", unitId |-> unitId, targetId |-> 0,
             x |-> objective.x, y |-> objective.y]

\* C14: an Attacking evaluation that does not revert pushes exactly one intent
\* for every selectable-combatant member: the attack on the best hostile in
\* reach, else the move to the objective point.
C14_OneIntentPerCombatant ==
    (AttackingJustEvaluated /\ state = "Attacking") =>
        LET members == SelectSeq(unitIds, LAMBDA unitId :
                           Val(unitData[unitId]).isSelectableCombatant)
        IN /\ Len(actionBatcher) = Len(members)
           /\ \A i \in 1..Len(members) : actionBatcher[i] = IntentOfClaim(members[i])

-----------------------------------------------------------------------------
(* Claims about LoadOntoTransportHandler, checked under SpecTransport *)

\* The transports and the passengers of the mission: the members that resolve
\* and have passenger slots, and those with a size that are no transport.
MissionTransports ==
    { id \in UnitIds : (\E i \in 1..Len(unitIds) : unitIds[i] = id)
                        /\ ~IsNull(unitData[id]) /\ Val(unitData[id]).passengers > 0 }

MissionPassengers ==
    { id \in UnitIds : (\E i \in 1..Len(unitIds) : unitIds[i] = id)
                        /\ ~IsNull(unitData[id]) /\ Val(unitData[id]).size > 0
                        /\ Val(unitData[id]).passengers = 0 }

AssignedTo(t) ==
    { p \in UnitIds : \E i \in 1..Len(transporteesToTransport) :
                          transporteesToTransport[i] = <<p, t>> }

RECURSIVE SumOfSizes(_)
SumOfSizes(ids) ==
    IF ids = {} THEN 0
    ELSE LET id == CHOOSE x \in ids : TRUE
         IN Val(unitData[id]).size + SumOfSizes(ids \ {id})

HandlerStarted == ~IsNull(transporters)

\* The iterations of the assignment loop of onStart for the mission's units.
LoadSteps ==
    assignTransportees(unitData, transportedUnitsOf(unitData, unitIds),
        remainingSizesOf(unitData, transportUnitsOf(unitData, unitIds)), << >>, << >>).steps

\* The passenger fitted none of the remaining sizes whenever the loop took it.
FitsNoRemainingCapacity(p) ==
    \A i \in 1..Len(LoadSteps) :
        LoadSteps[i].unit = p =>
            \A j \in 1..Len(LoadSteps[i].remainingSizes) :
                LoadSteps[i].remainingSizes[j][2] < Val(unitData[p]).size

\* C15: after onStart the sizes of the passengers assigned to a transport of
\* the mission sum to at most its passenger slots, every entry assigns a
\* passenger of the mission to one transport of the mission and no passenger
\* has two entries, and a passenger that fitted no transport's remaining
\* slots when the loop took it has no entry.
C15_LoadWithinCapacity ==
    HandlerStarted =>
        /\ \A t \in MissionTransports :
              SumOfSizes(AssignedTo(t)) <= Val(unitData[t]).passengers
        /\ \A i \in 1..Len(transporteesToTransport) :
              /\ transporteesToTransport[i][1] \in MissionPassengers
              /\ transporteesToTransport[i][2] \in MissionTransports
              /\ \A j \in 1..Len(transporteesToTransport) :
                    transporteesToTransport[j][1] = transporteesToTransport[i][1] => j = i
        /\ \A p \in MissionPassengers :
              FitsNoRemainingCapacity(p) =>
                 \A t \in MissionTransports : p \notin AssignedTo(t)

\* A started handler with a loaded transport and a passenger left behind.
C15_Witness ==
    /\ handlerOutcome.op = "onStart"
    /\ \E t \in MissionTransports : AssignedTo(t) # {}
    /\ \E p \in MissionPassengers :
          /\ \E i \in 1..Len(LoadSteps) : LoadSteps[i].unit = p
          /\ FitsNoRemainingCapacity(p)
          /\ \A t \in MissionTransports : p \notin AssignedTo(t)

-----------------------------------------------------------------------------
(* Claims about the Squad's mission and membership, checked under SpecSquad *)

\* C17: a Squad.onAiUpdate that finds the mission set but not active calls
\* that mission's removeSquad once, clears the mission reference and returns
\* disband without calling the behaviour; one that finds no mission returns
\* disband, calls neither; the behaviour is called only when the mission is
\* set and active, and nothing is removed then.
C17_OrphanedSquadDisbands ==
    [][ squadOutcome' # "none" =>
          IF ~IsNull(mission) /\ Val(mission) \notin activeMissions
          THEN /\ removeSquadCalls' = << Val(mission) >>
               /\ mission' = Null
               /\ squadOutcome' = "disband"
          ELSE IF IsNull(mission)
          THEN /\ removeSquadCalls' = << >>
               /\ mission' = Null
               /\ squadOutcome' = "disband"
          ELSE /\ removeSquadCalls' = << >>
               /\ mission' = mission
               /\ squadOutcome' = "behaviour" ]_vars

\* The update of a squad whose mission had ended: released and disbanded.
C17_Witness ==
    /\ squadOutcome = "disband"
    /\ removeSquadCalls = << "m1" >>
    /\ mission = Null
    /\ "m1" \notin activeMissions

\* C18: the membership of a squad is a set: whatever addUnit, removeUnit and
\* onAiUpdate calls were made, no id occurs twice in getUnitIds().
C18_MembershipIsASet ==
    \A i \in 1..Len(unitIds) : \A j \in 1..Len(unitIds) :
        unitIds[i] = unitIds[j] => i = j

-----------------------------------------------------------------------------
(* Claims about the micro policy, checked under SpecMicro *)

\* C19: every call of manageMoveMicro or manageAttackMicro gives exactly one
\* order, to the attacker, of kind move, deploy or attack.
C19_OneOrderPerInvocation ==
    [][ /\ Len(orders') = 1
        /\ orders'[1].unitIds = << Val(microAttacker).id >>
        /\ orders'[1].orderType \in {"Move", "DeploySelected", "Attack"} ]_vars

-----------------------------------------------------------------------------
(* Claims about the action coalescer, checked under SpecCoalescer *)

\* The intents pushed for an agent in the tick, and the orders issued to it.
PushesFor(id) == SelectSeq(pushed, LAMBDA intent : intent.unitId = id)

\* C20: the flush of a tick issues, for every agent that was pushed an
\* intent in the tick, exactly one order, that of the last intent pushed for
\* it, issues nothing for any other agent, and leaves nothing pending.  (The
\* flush is the step that pushes nothing while actions are pending.)
C20_FlushIssuesLastIntentPerAgent ==
    [][ (pending # << >> /\ pushed' = pushed) =>
          /\ pending' = << >>
          /\ \A id \in UnitIds :
                SelectSeq(orders', LAMBDA o : o.unitIds = << id >>) =
                   IF PushesFor(id) = << >> THEN << >>
                   ELSE << orderOfIntent(PushesFor(id)[Len(PushesFor(id))]) >>
          /\ \A i \in 1..Len(orders') : \E id \in UnitIds : orders'[i].unitIds = << id >> ]_vars

\* A tick flushed in which an agent was pushed two different intents and
\* another agent one: two orders were issued.
C20_Witness ==
    /\ pending = << >>
    /\ Len(pushed) = 3
    /\ Len(PushesFor(1)) = 2
    /\ PushesFor(1)[1] # PushesFor(1)[2]
    /\ Len(orders) = 2
    /\ \E i \in 1..2 : orders[i] = orderOfIntent(PushesFor(1)[2])

-----------------------------------------------------------------------------
(* Claims about the thresholds of the CombatSquad, checked under SpecCombat *)

\* For every member count up to 25 and every squared spread up to 66^2, a
\* spread beyond the Attacking-side threshold is beyond the Gathering-side one.
GatherThresholdsOrdered ==
    \A n \in 0..25 : \A distanceSq \in 0..4356 :
        exceedsGatherRadius(distanceSq, n, MAX_GATHER_RADIUS)
           => exceedsGatherRadius(distanceSq, n, MIN_GATHER_RADIUS)

\* The Gathering-side threshold is 15 for one member and 55 for 25 members.
GatherThresholdValues ==
    \A distanceSq \in 0..4356 :
        /\ exceedsGatherRadius(distanceSq, 1, MIN_GATHER_RADIUS) <=> distanceSq > 15 * 15
        /\ exceedsGatherRadius(distanceSq, 25, MIN_GATHER_RADIUS) <=> distanceSq > 55 * 55

\* C21: the Attacking-side threshold sqrt(n) * 10 + 15 is at least the
\* Gathering-side threshold sqrt(n) * 10 + 5 (15 for n = 1, 55 for n = 25), so
\* an Attacking evaluation that reads a cohesion with which Gathering switches
\* to Attacking (defined, center on the map, spread within the Gathering
\* threshold) does not revert to Gathering.
C21_NoOscillationAtConstantInputs ==
    /\ GatherThresholdsOrdered
    /\ GatherThresholdValues
    /\ (AttackingJustEvaluated /\ GatheredWithinRadius) => state = "Attacking"

\* An Attacking evaluation of a squad that is spread, but within the
\* Gathering threshold: it stays Attacking.
C21_Witness ==
    /\ AttackingJustEvaluated
    /\ GatheredWithinRadius
    /\ Val(maxDistanceToCenterOfMass) > 0
    /\ state = "Attacking"

\* The selectable-combatant members of the squad, ground or not.
CombatantMembers ==
    SelectSeq(unitIds, LAMBDA unitId : Val(unitData[unitId]).isSelectableCombatant)

\* The cohesion the evaluation read is defined, its center tile exists on the
\* map and the spread is above sqrt(n) * 10 + 5.
SpreadBeyondMinRadius ==
    /\ ~IsNull(centerOfMass)
    /\ ~IsNull(maxDistanceToCenterOfMass)
    /\ <<Val(centerOfMass).x, Val(centerOfMass).y>> \notin MissingTiles
    /\ LET L == Val(maxDistanceToCenterOfMass) - 100 * GroundCombatCount - 25
       IN L > 0 /\ L * L > 10000 * GroundCombatCount

-----------------------------------------------------------------------------
(* Claims about the rally point, checked under SpecAwareness *)

\* The players that are neither self nor allied with self, in game order.
NeitherSelfNorAllied ==
    SelectSeq(players, LAMBDA p : ~(p.name = Self) /\ ~p.allied)

\* C23: the rally point changes only in an onAiUpdate at a tick that is a
\* multiple of RALLY_POINT_UPDATE_INTERVAL_TICKS (60); any other update and any
\* query leaves it as it is; the update that recomputes it derives it from
\* self's start location and that of the first player that is neither self
\* nor allied with self.
C23_RallyPointChangesOnlyOnSchedule ==
    [][ /\ mainRallyPoint' # mainRallyPoint =>
              (awOutcome'.op = "update" /\ tick % 60 = 0)
        /\ (awOutcome'.op = "update" /\ tick % 60 = 0 /\ ~awOutcome'.raised) =>
              /\ NeitherSelfNorAllied # << >>
              /\ mainRallyPoint' = [from |-> Self,
                                    towards |-> NeitherSelfNorAllied[1].name,
                                    radius |-> 10] ]_vars

\* After the update of tick 60 of a game with an ally listed before the enemy
\* the rally point is towards the enemy.
C23_Witness ==
    /\ awOutcome.op = "update"
    /\ tick = 60
    /\ Len(players) = 3
    /\ players[2].allied
    /\ mainRallyPoint = [from |-> Self, towards |-> "enemy", radius |-> 10]

-----------------------------------------------------------------------------
(* Claims about manageAttackMicro, checked under SpecMicro *)

\* The range of the attacker's deployed weapon: that of its secondary weapon,
\* 5 when it has none or one of range 0.
DeployedWeaponRange ==
    LET weapon == Val(microAttacker).secondaryWeapon
    IN IF weapon = Null \/ weapon = Some(0) THEN 5 ELSE weapon[1]

\* The target is within the deployed-weapon range of the attacker.
TargetInDeployedRange ==
    LET dx == Val(microAttacker).tile.rx - Val(microTarget).tile.rx
        dy == Val(microAttacker).tile.ry - Val(microTarget).tile.ry
    IN dx * dx + dy * dy <= DeployedWeaponRange * DeployedWeaponRange

\* The cases in which a deployable attacker is to toggle its deployment.
TogglesDeployment ==
    /\ Val(microAttacker).name = "E1"
    /\ \/ /\ Val(microAttacker).stance # "Deployed"
          /\ TargetInDeployedRange \/ Val(microAttacker).attackState = "JustFired"
       \/ /\ Val(microAttacker).stance = "Deployed"
          /\ ~TargetInDeployedRange

\* C24: manageAttackMicro (the call that gives no move order) gives an E1 one
\* deploy order and no attack order when it is undeployed and the target is
\* in deployed-weapon range or it has just fired, and when it is deployed and
\* the target is out of that range; in the other two cases of an E1, and for
\* every other attacker, it gives one attack order against the target.
C24_AttackMicroDeploysOrAttacks ==
    [][ (\A i \in 1..Len(orders') : orders'[i].orderType # "Move") =>
          orders' =
             IF TogglesDeployment
             THEN << [unitIds |-> << Val(microAttacker).id >>,
                      orderType |-> "DeploySelected", args |-> << >>] >>
             ELSE << [unitIds |-> << Val(microAttacker).id >>,
                      orderType |-> "Attack", args |-> << Val(microTarget).id >>] >> ]_vars

\* A deployed E1 whose target is out of range was told to undeploy.
C24_Witness ==
    /\ Val(microAttacker).name = "E1"
    /\ Val(microAttacker).stance = "Deployed"
    /\ ~TargetInDeployedRange
    /\ Len(orders) = 1
    /\ orders[1].orderType = "DeploySelected"

-----------------------------------------------------------------------------
(* Claims about the hysteresis of the attack flag, checked under SpecAwareness *)

\* Threat snapshots with non-negative values: every power, threat and
\* defence of a small grid.
HysteresisSnapshots ==
    { GlobalThreat(antiGround, land, defensive, airPower, antiAir, 0) :
        antiGround \in {0, 1, 10, 50, 100, 150, 200}, land \in {0, 50, 100, 150, 200},
        defensive \in {0, 50, 100}, airPower \in {0, 100}, antiAir \in {0, 50, 150} }

\* The rule evaluated on a snapshot at a tick from defend mode, from attack mode.
AttackFromDefend(threat, t) ==
    checkShouldAttack(threat, threatFactorFor(FALSE, gameLengthFactor(t)))

AttackFromAttack(threat, t) ==
    checkShouldAttack(threat, threatFactorFor(TRUE, gameLengthFactor(t)))

\* On every snapshot of the grid and of the model, at every tick of the
\* model, attack from defend mode implies attack from attack mode.
HysteresisMonotone ==
    \A threat \in HysteresisSnapshots \cup ThreatSnapshots : \A t \in TickValues :
        AttackFromDefend(threat, t) => AttackFromAttack(threat, t)

\* C25: on the same snapshot and tick, the rule that yields attack from
\* defend mode yields attack from attack mode; so an evaluation that changes
\* the flag leaves a flag that the same evaluation repeated does not change.
C25_HysteresisMonotone ==
    [][ /\ HysteresisMonotone
        /\ (AwJustEvaluated' /\ shouldAttack' # shouldAttack) =>
              shouldAttack' =
                 checkShouldAttack(Val(threatCache'),
                     threatFactorFor(shouldAttack', gameLengthFactor(tick'))) ]_vars

\* An evaluation on a snapshot that yields attack from defend mode: the flag
\* is set, and stays set from attack mode.
C25_Witness ==
    /\ AwJustEvaluated
    /\ shouldAttack
    /\ AttackFromDefend(Val(threatCache), tick)
    /\ AttackFromAttack(Val(threatCache), tick)
    /\ Val(threatCache).totalOffensiveLandThreat > 0

-----------------------------------------------------------------------------
(* Claims about the loading step before its deadline, checked under SpecTransport *)

\* The last operation is an onStep of a started handler at a tick not past
\* the deadline t0 + LOAD_TIME_LIMIT.
SteppedBeforeDeadline ==
    /\ handlerOutcome.op = "onStep"
    /\ ~IsNull(transporters)
    /\ tick <= Val(abortAt)

\* The number of orders of the last operation that send the passenger into
\* the transport.
EnterOrdersFor(passenger, transport) ==
    Cardinality({ i \in 1..Len(orders) :
        orders[i] = orderUnits(<< passenger >>, "EnterTransport", << transport >>) })

\* C26: an onStep of a started handler at a tick <= t0 + LOAD_TIME_LIMIT returns
\* repeat and issues one EnterTransport order for every assigned passenger,
\* into its assigned transport, and no other order.
C26_RepeatsUntilDeadline ==
    SteppedBeforeDeadline =>
        /\ handlerOutcome.result = "repeat"
        /\ Len(orders) = Len(transporteesToTransport)
        /\ \A i \in 1..Len(transporteesToTransport) :
              EnterOrdersFor(transporteesToTransport[i][1], transporteesToTransport[i][2]) = 1

\* An onStep on the deadline itself that orders an assigned passenger into
\* its transport.
C26_Witness ==
    /\ SteppedBeforeDeadline
    /\ tick = Val(abortAt)
    /\ handlerOutcome.result = "repeat"
    /\ Len(transporteesToTransport) >= 2
    /\ Len(orders) = Len(transporteesToTransport)

-----------------------------------------------------------------------------
(* Claims about stale references in the membership, checked under SpecSquad *)

\* The id resolves to a unit in the game.
Resolves(game, unitId) == game[unitId] # Null

\* C27: a Squad.onAiUpdate leaves in getUnitIds() the ids of the previous
\* membership that resolve at that update, in their previous order, so an id
\* whose unit stopped resolving is gone after the next update; the update
\* disbands only for its mission, whatever was pruned; and the cohesion it
\* caches is the one of the tiles of the pruned membership.
C27_StaleIdsPrunedSilently ==
    [][ SquadJustUpdated' =>
          /\ \A i \in 1..Len(unitIds') : Resolves(unitData', unitIds'[i])
          /\ unitIds' = SelectSeq(unitIds, LAMBDA unitId : Resolves(unitData', unitId))
          /\ squadOutcome' \in {"disband", "behaviour"}
          /\ (squadOutcome' = "disband") <=>
                (IsNull(mission) \/ Val(mission) \notin activeMissions)
          /\ LET tileMetrics == calculateCenterOfMass(movableUnitTiles(unitData', unitIds'))
             IN IF IsNull(tileMetrics)
                THEN centerOfMass' = Null /\ maxDistanceToCenterOfMass' = Null
                ELSE /\ centerOfMass' = Some(Val(tileMetrics).centerOfMass)
                     /\ maxDistanceToCenterOfMass' = Some(Val(tileMetrics).maxDistance) ]_vars

\* An update that dropped the stale id 2 from between 3 and 1, handed the
\* turn to the behaviour and cached the cohesion of the two that are left.
C27_Witness ==
    /\ SquadJustUpdated
    /\ staleUnitIds = << 2 >>
    /\ unitIds = << 3, 1 >>
    /\ squadOutcome = "behaviour"
    /\ ~IsNull(centerOfMass)

=============================================================================
